---- MODULE Spec2Model ----
(***************************************************************************)
(* Model of clam_msgs::BlockManipulationAction                             *)
(* (block_manipulation_action_demo.cpp): the callback chain                *)
(*   constructor -> resetArm -> detectBlocks -> addBlocks -> pickAndPlace  *)
(*   -> finish -> resetArm ...                                             *)
(* The three action clients and the /send_home service are the             *)
(* environment: servers come up, the service call returns true or false,   *)
(* and a goal that was sent completes with some terminal goal state.       *)
(* `log` is a history variable recording, in program order, every request  *)
(* the node issues, every return/completion it handles and every call of   *)
(* ros::shutdown(); `sent` records the payload of every request and        *)
(* `notes` the severity of the message each done callback logs.            *)
(***************************************************************************)
EXTENDS Naturals, Sequences, FiniteSets

\* Largest number of /send_home calls explored (cycles of the demo loop).
MaxCycles == 3

\* Terminal states of actionlib::SimpleClientGoalState handed to a done callback.
SUCCEEDED == "SUCCEEDED"
Outcomes == {"SUCCEEDED", "ABORTED", "REJECTED", "PREEMPTED", "RECALLED", "LOST"}

\* The endpoints in the order the constructor waits for them.
WaitOrder == <<"block_detection", "interactive_manipulation", "pick_place", "/send_home">>
Endpoints == {WaitOrder[i] : i \in 1..Len(WaitOrder)}

\* The three action clients, named by the stage they serve.
Clients == {"Detect", "Select", "PickPlace"}

\* Topic name handed to the pick and place server.
pick_place_topic == "/pick_place"

\* Parameter sets the node may be started with (lengths in millimetres); the
\* first one holds the defaults of the nh_.param calls.
Configs ==
  { [arm_link |-> "/base_link", gripper_open |-> 42, gripper_closed |-> 24,
     z_up |-> 120, z_down |-> 10, block_size |-> 30],
    [arm_link |-> "/arm_base_link", gripper_open |-> 50, gripper_closed |-> 20,
     z_up |-> 150, z_down |-> 0, block_size |-> 25],
    [arm_link |-> "/base_link", gripper_open |-> 42, gripper_closed |-> 24,
     z_up |-> 120, z_down |-> 35, block_size |-> 40] }

\* The goals as the constructor fills them in from the parameters.
GoalsOf(c) ==
  [Detect    |-> [frame |-> c.arm_link, table_height |-> c.z_down,
                  block_size |-> c.block_size],
   Select    |-> [block_size |-> c.block_size, frame |-> c.arm_link],
   PickPlace |-> [frame |-> c.arm_link, z_up |-> c.z_up,
                  gripper_open |-> c.gripper_open,
                  gripper_closed |-> c.gripper_closed,
                  topic |-> pick_place_topic]]

\* home_srv_.request as the constructor sets it.
HomeRequest == [sendHome |-> TRUE]

VARIABLES
  once,      \* the "once" parameter
  cfg,       \* the other parameters: arm_link, gripper_open, gripper_closed,
             \* z_up, z_down, block_size
  payload,   \* block_detection_goal_, interactive_manipulation_goal_,
             \* pick_place_goal_, by client
  homeReq,   \* home_srv_.request
  up,        \* endpoints whose server is currently reachable (environment)
  waitIdx,   \* index in WaitOrder of the wait the constructor is blocked in
  pc,        \* "ctor": in the constructor's waits; "homeCall": blocked in
             \* home_service_.call; "spin": no handler running
  goals,     \* per action client: "idle" or "active" (goal sent, done callback not yet run)
  rosOk,     \* FALSE once ros::shutdown() has been called
  log,       \* history of events
  sent,      \* history of the requests issued, with the payload handed over
  notes      \* history of the messages logged by the done callbacks

vars == <<once, cfg, payload, homeReq, up, waitIdx, pc, goals, rosOk, log, sent, notes>>

\* Members written by the constructor only.
conf == <<once, cfg, payload, homeReq>>

Ev(k, s, r) == [kind |-> k, stage |-> s, res |-> r]
CallReset == Ev("call", "Reset", "-")
RetReset(ok) == Ev("ret", "Reset", IF ok THEN "ok" ELSE "fail")
Send(c) == Ev("send", c, "-")
Done(c, state) == Ev("done", c, state)
Shutdown == Ev("shutdown", "-", "-")

\* A request as it leaves the node, and a message of a done callback.
Req(s, p) == [stage |-> s, payload |-> p]
Note(s, level) == [stage |-> s, level |-> level]

\* ---- history readers ---------------------------------------------------
IsRequest(e) == e.kind \in {"call", "send"}
Requests(l) == SelectSeq(l, IsRequest)
IsShutdown(e) == e.kind = "shutdown"
ShutdownCount(l) == Len(SelectSeq(l, IsShutdown))
IsCallReset(e) == e = CallReset
ResetCalls(l) == Len(SelectSeq(l, IsCallReset))

TypeOK ==
  /\ once \in BOOLEAN
  /\ cfg \in Configs
  /\ up \subseteq Endpoints
  /\ waitIdx \in 1..(Len(WaitOrder) + 1)
  /\ pc \in {"ctor", "homeCall", "spin"}
  /\ goals \in [Clients -> {"idle", "active"}]
  /\ rosOk \in BOOLEAN
  /\ Len(sent) = Len(Requests(log))

Init ==
  /\ once \in BOOLEAN
  /\ cfg \in Configs
  /\ payload = GoalsOf(cfg)
  /\ homeReq = HomeRequest
  /\ up = {}
  /\ waitIdx = 1
  /\ pc = "ctor"
  /\ goals = [c \in Clients |-> "idle"]
  /\ rosOk = TRUE
  /\ log = <<>>
  /\ sent = <<>>
  /\ notes = <<>>

\* ---- environment: a server or the service becomes reachable ------------
ServerUp(e) ==
  /\ e \notin up
  /\ up' = up \cup {e}
  /\ UNCHANGED <<conf, waitIdx, pc, goals, rosOk, log, sent, notes>>

\* ---- resetArm, first half: log and block in home_service_.call ---------
resetArm(l) ==
  /\ pc' = "homeCall"
  /\ log' = Append(l, CallReset)
  /\ sent' = Append(sent, Req("Reset", homeReq))

\* ---- detectBlocks: send the detection goal, bound to addBlocks ---------
detectBlocks(l) ==
  /\ goals' = [goals EXCEPT !["Detect"] = "active"]
  /\ log' = Append(l, Send("Detect"))
  /\ sent' = Append(sent, Req("Detect", payload["Detect"]))

\* ---- skipPerception: send the pick-place goal, bound to finish ---------
skipPerception(l) ==
  /\ goals' = [goals EXCEPT !["PickPlace"] = "active"]
  /\ log' = Append(l, Send("PickPlace"))
  /\ sent' = Append(sent, Req("PickPlace", payload["PickPlace"]))

\* Variant of the constructor that does not wait for the /send_home service.
waitForServer_noHomeWait ==
  /\ pc = "ctor"
  /\ waitIdx <= Len(WaitOrder)
  /\ waitIdx = Len(WaitOrder) \/ WaitOrder[waitIdx] \in up
  /\ waitIdx' = waitIdx + 1
  /\ IF waitIdx = Len(WaitOrder)
       THEN resetArm(log)
       ELSE UNCHANGED <<pc, log, sent>>
  /\ UNCHANGED <<conf, up, goals, rosOk, notes>>

\* ---- constructor: the four waits in order, then resetArm() -------------
waitForServer ==
  /\ pc = "ctor"
  /\ waitIdx <= Len(WaitOrder)
  /\ WaitOrder[waitIdx] \in up
  /\ waitIdx' = waitIdx + 1
  /\ IF waitIdx = Len(WaitOrder)
       THEN resetArm(log)
       ELSE UNCHANGED <<pc, log, sent>>
  /\ UNCHANGED <<conf, up, goals, rosOk, notes>>

\* Variants of resetArm's second half used to test the properties below.
\* Both detectBlocks() and skipPerception() enabled after a successful call.
resetArmReturn_both(ok) ==
  /\ pc = "homeCall"
  /\ pc' = "spin"
  /\ IF ok
       THEN /\ goals' = [goals EXCEPT !["Detect"] = "active", !["PickPlace"] = "active"]
            /\ log' = Append(Append(Append(log, RetReset(TRUE)), Send("Detect")), Send("PickPlace"))
            /\ sent' = Append(Append(sent, Req("Detect", payload["Detect"])),
                              Req("PickPlace", payload["PickPlace"]))
       ELSE /\ log' = Append(log, RetReset(FALSE))
            /\ UNCHANGED <<goals, sent>>
  /\ UNCHANGED <<conf, up, waitIdx, rosOk, notes>>

\* The failure branch logs the error but falls through to detectBlocks().
resetArmReturn_fallThrough(ok) ==
  /\ pc = "homeCall"
  /\ pc' = "spin"
  /\ detectBlocks(Append(log, RetReset(ok)))
  /\ UNCHANGED <<conf, up, waitIdx, rosOk, notes>>

\* skipPerception() called in place of detectBlocks().
resetArmReturn_skip(ok) ==
  /\ pc = "homeCall"
  /\ pc' = "spin"
  /\ IF ok
       THEN skipPerception(Append(log, RetReset(TRUE)))
       ELSE /\ log' = Append(log, RetReset(FALSE))
            /\ UNCHANGED <<goals, sent>>
  /\ UNCHANGED <<conf, up, waitIdx, rosOk, notes>>

\* The failure branch calls ros::shutdown() like the done callbacks do.
resetArmReturn_shutdown(ok) ==
  /\ pc = "homeCall"
  /\ pc' = "spin"
  /\ IF ok
       THEN /\ detectBlocks(Append(log, RetReset(TRUE)))
            /\ UNCHANGED rosOk
       ELSE /\ log' = Append(Append(log, RetReset(FALSE)), Shutdown)
            /\ rosOk' = FALSE
            /\ UNCHANGED <<goals, sent>>
  /\ UNCHANGED <<conf, up, waitIdx, notes>>

\* ---- resetArm, second half: the service call returns -------------------
resetArmReturn(ok) ==
  /\ pc = "homeCall"
  /\ pc' = "spin"
  /\ IF ok
       THEN detectBlocks(Append(log, RetReset(TRUE)))
       ELSE /\ log' = Append(log, RetReset(FALSE))
            /\ UNCHANGED <<goals, sent>>
  /\ UNCHANGED <<conf, up, waitIdx, rosOk, notes>>

\* A done callback runs from its client's spin thread, which loops while the
\* node is ok; after ros::shutdown() no callback is delivered any more.
Deliverable(c) ==
  /\ pc = "spin"
  /\ rosOk
  /\ goals[c] = "active"

\* Severity of the message a done callback logs for a goal state.
Level(state) == IF state = SUCCEEDED THEN "INFO" ELSE "ERROR"

\* Variants of addBlocks used to test the properties below.
\* Only ABORTED is treated as a failure.
addBlocks_abortedOnly(state) ==
  /\ Deliverable("Detect")
  /\ LET l1 == Append(log, Done("Detect", state))
         l2 == IF state # "ABORTED" THEN l1 ELSE Append(l1, Shutdown)
     IN  log' = Append(l2, Send("Select"))
  /\ rosOk' = (state # "ABORTED")
  /\ goals' = [goals EXCEPT !["Detect"] = "idle", !["Select"] = "active"]
  /\ sent' = Append(sent, Req("Select", payload["Select"]))
  /\ notes' = Append(notes, Note("Detect", IF state # "ABORTED" THEN "INFO" ELSE "ERROR"))
  /\ UNCHANGED <<conf, up, waitIdx, pc>>

\* A failed detection is retried instead of ending the run.
addBlocks_retry(state) ==
  /\ Deliverable("Detect")
  /\ IF state = SUCCEEDED
       THEN /\ log' = Append(Append(log, Done("Detect", state)), Send("Select"))
            /\ goals' = [goals EXCEPT !["Detect"] = "idle", !["Select"] = "active"]
            /\ sent' = Append(sent, Req("Select", payload["Select"]))
       ELSE detectBlocks(Append(log, Done("Detect", state)))
  /\ notes' = Append(notes, Note("Detect", Level(state)))
  /\ UNCHANGED <<conf, up, waitIdx, pc, rosOk>>

\* ---- addBlocks: done callback of the detection goal --------------------
addBlocks(state) ==
  /\ Deliverable("Detect")
  /\ LET l1 == Append(log, Done("Detect", state))
         l2 == IF state = SUCCEEDED THEN l1 ELSE Append(l1, Shutdown)
     IN  log' = Append(l2, Send("Select"))
  /\ rosOk' = (state = SUCCEEDED)
  /\ goals' = [goals EXCEPT !["Detect"] = "idle", !["Select"] = "active"]
  /\ sent' = Append(sent, Req("Select", payload["Select"]))
  /\ notes' = Append(notes, Note("Detect", Level(state)))
  /\ UNCHANGED <<conf, up, waitIdx, pc>>

\* Variant of pickAndPlace that writes into pick_place_goal_ before sending it.
pickAndPlace_inject(state) ==
  /\ Deliverable("Select")
  /\ LET l1 == Append(log, Done("Select", state))
         l2 == IF state = SUCCEEDED THEN l1 ELSE Append(l1, Shutdown)
     IN  log' = Append(l2, Send("PickPlace"))
  /\ rosOk' = (state = SUCCEEDED)
  /\ goals' = [goals EXCEPT !["Select"] = "idle", !["PickPlace"] = "active"]
  /\ payload' = [payload EXCEPT !["PickPlace"].z_up = payload["PickPlace"].z_up + 1]
  /\ sent' = Append(sent, Req("PickPlace", payload'["PickPlace"]))
  /\ notes' = Append(notes, Note("Select", Level(state)))
  /\ UNCHANGED <<once, cfg, homeReq, up, waitIdx, pc>>

\* ---- pickAndPlace: done callback of the interactive manipulation goal --
pickAndPlace(state) ==
  /\ Deliverable("Select")
  /\ LET l1 == Append(log, Done("Select", state))
         l2 == IF state = SUCCEEDED THEN l1 ELSE Append(l1, Shutdown)
     IN  log' = Append(l2, Send("PickPlace"))
  /\ rosOk' = (state = SUCCEEDED)
  /\ goals' = [goals EXCEPT !["Select"] = "idle", !["PickPlace"] = "active"]
  /\ sent' = Append(sent, Req("PickPlace", payload["PickPlace"]))
  /\ notes' = Append(notes, Note("Select", Level(state)))
  /\ UNCHANGED <<conf, up, waitIdx, pc>>

\* Variants of finish used to test the properties below.
\* ros::shutdown() without an else: the restart runs as well.
finish_noElse(state) ==
  /\ Deliverable("PickPlace")
  /\ ResetCalls(log) < MaxCycles
  /\ goals' = [goals EXCEPT !["PickPlace"] = "idle"]
  /\ notes' = Append(notes, Note("PickPlace", Level(state)))
  /\ IF once
       THEN /\ resetArm(Append(Append(log, Done("PickPlace", state)), Shutdown))
            /\ rosOk' = FALSE
       ELSE /\ resetArm(Append(log, Done("PickPlace", state)))
            /\ UNCHANGED rosOk
  /\ UNCHANGED <<conf, up, waitIdx>>

\* A failed pick and place shuts the node down like the earlier stages do.
finish_haltOnFailure(state) ==
  /\ Deliverable("PickPlace")
  /\ once \/ ResetCalls(log) < MaxCycles
  /\ goals' = [goals EXCEPT !["PickPlace"] = "idle"]
  /\ notes' = Append(notes, Note("PickPlace", Level(state)))
  /\ IF once \/ state # SUCCEEDED
       THEN /\ log' = Append(Append(log, Done("PickPlace", state)), Shutdown)
            /\ rosOk' = FALSE
            /\ UNCHANGED <<pc, sent>>
       ELSE /\ resetArm(Append(log, Done("PickPlace", state)))
            /\ UNCHANGED rosOk
  /\ UNCHANGED <<conf, up, waitIdx>>

\* The test of `once` inverted.
finish_inverted(state) ==
  /\ Deliverable("PickPlace")
  /\ ResetCalls(log) < MaxCycles
  /\ goals' = [goals EXCEPT !["PickPlace"] = "idle"]
  /\ notes' = Append(notes, Note("PickPlace", Level(state)))
  /\ IF ~once
       THEN /\ log' = Append(Append(log, Done("PickPlace", state)), Shutdown)
            /\ rosOk' = FALSE
            /\ UNCHANGED <<pc, sent>>
       ELSE /\ resetArm(Append(log, Done("PickPlace", state)))
            /\ UNCHANGED rosOk
  /\ UNCHANGED <<conf, up, waitIdx>>

\* The restart branch returns without calling resetArm().
finish_noRestart(state) ==
  /\ Deliverable("PickPlace")
  /\ goals' = [goals EXCEPT !["PickPlace"] = "idle"]
  /\ notes' = Append(notes, Note("PickPlace", Level(state)))
  /\ IF once
       THEN /\ log' = Append(Append(log, Done("PickPlace", state)), Shutdown)
            /\ rosOk' = FALSE
       ELSE /\ log' = Append(log, Done("PickPlace", state))
            /\ UNCHANGED rosOk
  /\ UNCHANGED <<conf, up, waitIdx, pc, sent>>

\* The `once` parameter is not consulted: the demo always restarts.
finish_ignoreOnce(state) ==
  /\ Deliverable("PickPlace")
  /\ ResetCalls(log) < MaxCycles
  /\ goals' = [goals EXCEPT !["PickPlace"] = "idle"]
  /\ notes' = Append(notes, Note("PickPlace", Level(state)))
  /\ resetArm(Append(log, Done("PickPlace", state)))
  /\ UNCHANGED <<conf, up, waitIdx, rosOk>>

\* ---- finish: done callback of the pick-place goal ----------------------
finish(state) ==
  /\ Deliverable("PickPlace")
  /\ once \/ ResetCalls(log) < MaxCycles
  /\ goals' = [goals EXCEPT !["PickPlace"] = "idle"]
  /\ notes' = Append(notes, Note("PickPlace", Level(state)))
  /\ IF once
       THEN /\ log' = Append(Append(log, Done("PickPlace", state)), Shutdown)
            /\ rosOk' = FALSE
            /\ UNCHANGED <<pc, sent>>
       ELSE /\ resetArm(Append(log, Done("PickPlace", state)))
            /\ UNCHANGED rosOk
  /\ UNCHANGED <<conf, up, waitIdx>>

\* A pending goal is given up after a while and the node shut down (the step
\* the node does not have): used to test the property of stalled goals.
GiveUp(c) ==
  /\ pc = "spin"
  /\ rosOk
  /\ goals[c] = "active"
  /\ goals' = [goals EXCEPT ![c] = "idle"]
  /\ log' = Append(log, Shutdown)
  /\ rosOk' = FALSE
  /\ UNCHANGED <<conf, up, waitIdx, pc, sent, notes>>

Next_withTimeout ==
  \/ \E e \in Endpoints : ServerUp(e)
  \/ waitForServer
  \/ \E ok \in BOOLEAN : resetArmReturn(ok)
  \/ \E state \in Outcomes : addBlocks(state)
  \/ \E state \in Outcomes : pickAndPlace(state)
  \/ \E state \in Outcomes : finish(state)
  \/ \E c \in Clients : GiveUp(c)

Next ==
  \/ \E e \in Endpoints : ServerUp(e)
  \/ waitForServer
  \/ \E ok \in BOOLEAN : resetArmReturn(ok)
  \/ \E state \in Outcomes : addBlocks(state)
  \/ \E state \in Outcomes : pickAndPlace(state)
  \/ \E state \in Outcomes : finish(state)

Spec == Init /\ [][Next]_vars

\* Fair delivery: every enabled step of the node and of its servers is
\* eventually taken (servers come up, the service call returns, every goal
\* that was sent completes with some outcome).
Fairness ==
  /\ \A e \in Endpoints : WF_vars(ServerUp(e))
  /\ WF_vars(waitForServer)
  /\ WF_vars(\E ok \in BOOLEAN : resetArmReturn(ok))
  /\ WF_vars(\E state \in Outcomes : addBlocks(state))
  /\ WF_vars(\E state \in Outcomes : pickAndPlace(state))
  /\ WF_vars(\E state \in Outcomes : finish(state))

LiveSpec == Init /\ [][Next]_vars /\ Fairness

\* ---- vocabulary of the properties --------------------------------------
Pos == 1..Len(log)
IsDone(e, c) == e.kind = "done" /\ e.stage = c
FailedDone(e, c) == IsDone(e, c) /\ e.res # SUCCEEDED
StageOrder == <<"Reset", "Detect", "Select", "PickPlace">>
OneCycle == <<CallReset, Send("Detect"), Send("Select"), Send("PickPlace")>>
CountOf(l, e) == Cardinality({i \in 1..Len(l) : l[i] = e})
IsPrefix(a, b) == Len(a) <= Len(b) /\ \A i \in 1..Len(a) : a[i] = b[i]
Outstanding ==
  (IF pc = "homeCall" THEN 1 ELSE 0) + Cardinality({c \in Clients : goals[c] = "active"})
\* No handler is running and none can run any more.
Halted == pc = "spin" /\ (~rosOk \/ \A c \in Clients : goals[c] = "idle")
SomeFailure ==
  \E i \in Pos : log[i] = RetReset(FALSE) \/ (log[i].kind = "done" /\ log[i].res # SUCCEEDED)

\* C1 (as claimed): once a Detect completion with an outcome other than
\* SUCCEEDED has been handled, the node is halted and neither a Select goal
\* nor a PickPlace goal is sent afterwards.
C1_DetectFailureStopsPipeline ==
  \A i \in Pos : FailedDone(log[i], "Detect") =>
     /\ Halted
     /\ \A j \in Pos : j > i => log[j] \notin {Send("Select"), Send("PickPlace")}

\* C2 (as claimed): once a Select completion with an outcome other than
\* SUCCEEDED has been handled, the node is halted and no PickPlace goal is
\* sent afterwards.
C2_SelectFailureStopsPipeline ==
  \A i \in Pos : FailedDone(log[i], "Select") =>
     /\ Halted
     /\ \A j \in Pos : j > i => log[j] # Send("PickPlace")

\* C3 (as claimed): each of the three failure events (Reset call returned
\* false, Detect failed, Select failed) is followed, within the handler that
\* sees it, by a call of ros::shutdown().
C3_FailureRequestsShutdown ==
  \A i \in Pos :
     (log[i] = RetReset(FALSE) \/ FailedDone(log[i], "Detect") \/ FailedDone(log[i], "Select"))
       => (i < Len(log) /\ log[i + 1] = Shutdown)

\* C4: at most one request is outstanding (the blocking Reset call or a goal
\* whose done callback has not run), and between any two requests in the
\* history lies the return or completion of the earlier one.
C4_AtMostOneOutstanding ==
  /\ Outstanding <= 1
  /\ \A i \in Pos : \A j \in Pos :
       (i < j /\ IsRequest(log[i]) /\ IsRequest(log[j])) =>
          \E k \in Pos : i < k /\ k < j /\ log[k].kind \in {"ret", "done"}
                         /\ log[k].stage = log[i].stage

C4_Witness ==
  /\ ResetCalls(log) >= 2
  /\ goals["PickPlace"] = "active"
  /\ \E i \in Pos : FailedDone(log[i], "PickPlace")
  /\ \E i \in Pos : FailedDone(log[i], "Select")

\* C5: a Reset call that returns failure, in the first or a later cycle, is
\* the last event of the run: no Detect goal, no further Reset call, no other
\* request follows, and the node is halted with nothing outstanding.
C5_ResetFailureIsFinal ==
  \A i \in Pos : log[i] = RetReset(FALSE) =>
     /\ i = Len(log)
     /\ Halted
     /\ Outstanding = 0

C5_Witness ==
  /\ Len(log) > 0
  /\ log[Len(log)] = RetReset(FALSE)
  /\ ResetCalls(log) >= 2

\* C6: with once = TRUE, a handled PickPlace completion (any outcome) is
\* followed by exactly one ros::shutdown(), the only one of the run, and by
\* no request.
C6_OnceHaltsAfterPlace ==
  \A i \in Pos : (once /\ IsDone(log[i], "PickPlace")) =>
     /\ i + 1 = Len(log)
     /\ log[i + 1] = Shutdown
     /\ ShutdownCount(log) = 1
     /\ Halted
     /\ \A j \in Pos : j > i => ~IsRequest(log[j])

C6_Witness ==
  /\ once
  /\ \E i \in Pos : FailedDone(log[i], "PickPlace")

\* C7: with once = FALSE, a handled PickPlace completion is followed
\* immediately by a new Reset call, whatever the outcome, and no shutdown has
\* been requested up to that call.
C7_LoopRestartsAfterPlace ==
  \A i \in Pos : (~once /\ IsDone(log[i], "PickPlace")) =>
     /\ i < Len(log)
     /\ log[i + 1] = CallReset
     /\ ShutdownCount(SubSeq(log, 1, i + 1)) = 0

C7_Witness ==
  /\ ~once
  /\ \E i \in Pos : FailedDone(log[i], "PickPlace") /\ i < Len(log) /\ log[i + 1] = CallReset
  /\ \E i \in Pos : log[i] = Done("PickPlace", SUCCEEDED) /\ i < Len(log) /\ log[i + 1] = CallReset

\* C8: the requests issued form a prefix of (Reset, Detect, Select,
\* PickPlace) repeated; a PickPlace goal is sent only right after a Select
\* completion, with no request in between; and when the n-th PickPlace goal
\* is sent, exactly n Reset calls, n Detect goals and n Select goals have
\* been issued.
C8_StrictStageOrder ==
  /\ \A i \in 1..Len(Requests(log)) :
        Requests(log)[i].stage = StageOrder[((i - 1) % 4) + 1]
  /\ \A j \in Pos : log[j] = Send("PickPlace") =>
        /\ \E k \in Pos : /\ k < j
                          /\ IsDone(log[k], "Select")
                          /\ \A m \in Pos : (k < m /\ m < j) => ~IsRequest(log[m])
        /\ LET p == SubSeq(log, 1, j)
               n == CountOf(p, Send("PickPlace"))
           IN  /\ CountOf(p, CallReset) = n
               /\ CountOf(p, Send("Detect")) = n
               /\ CountOf(p, Send("Select")) = n

C8_Witness ==
  /\ ~once
  /\ ~SomeFailure
  /\ CountOf(log, Send("PickPlace")) = 3
  /\ CountOf(log, Done("PickPlace", SUCCEEDED)) = 2
  /\ log[Len(log)] = Send("PickPlace")

\* C9: with once = TRUE and no failure in the run, the node eventually
\* requests shutdown having issued exactly one Reset call and one Detect, one
\* Select and one PickPlace goal, and it never issues more than that.
C9_OnceSuccessfulRunHalts ==
  /\ <>(~once \/ SomeFailure
          \/ (Halted /\ ShutdownCount(log) = 1 /\ Requests(log) = OneCycle))
  /\ []((once /\ ~SomeFailure) =>
          (IsPrefix(Requests(log), OneCycle) /\ ShutdownCount(log) <= 1))

C9_Witness ==
  /\ once
  /\ ~SomeFailure
  /\ ~rosOk
  /\ Requests(log) = OneCycle
  /\ log[Len(log)] = Shutdown

\* C10: a request is issued only after all four waits of the constructor have
\* returned, each for an endpoint that is reachable; while some endpoint is
\* not reachable nothing is issued; and the first request is the Reset call.
C10_StartupGate ==
  /\ \A i \in 1..Len(WaitOrder) : waitIdx > i => WaitOrder[i] \in up
  /\ up # Endpoints => Requests(log) = <<>>
  /\ Requests(log) # <<>> =>
        /\ waitIdx = Len(WaitOrder) + 1
        /\ Head(Requests(log)) = CallReset

C10_Witness ==
  /\ log = <<CallReset>>
  /\ up = Endpoints
  /\ pc = "homeCall"

\* ---- further vocabulary --------------------------------------------------
IsDoneEv(e) == e.kind = "done"
DoneEvents(l) == SelectSeq(l, IsDoneEv)
DoneCount(c) == Cardinality({i \in Pos : IsDone(log[i], c)})
SentCount(s) == Cardinality({i \in 1..Len(sent) : sent[i].stage = s})
\* A failure of one of the stages that end the run.
FatalFailure ==
  \E i \in Pos : \/ log[i] = RetReset(FALSE)
                 \/ FailedDone(log[i], "Detect")
                 \/ FailedDone(log[i], "Select")
ExpectedPayload(s) == IF s = "Reset" THEN HomeRequest ELSE GoalsOf(cfg)[s]

\* C11: the parameters, the three goals and the Reset request are changed by
\* no step, and every request ever issued carries the payload the
\* constructor derived from the parameters, so that two requests of the same
\* stage are identical whatever cycle they belong to.
C11_PayloadsFixed ==
  /\ [][UNCHANGED conf]_vars
  /\ [](/\ payload = GoalsOf(cfg)
        /\ homeReq = HomeRequest
        /\ \A i \in 1..Len(sent) : sent[i].payload = ExpectedPayload(sent[i].stage)
        /\ \A i \in 1..Len(sent) : \A j \in 1..Len(sent) :
              sent[i].stage = sent[j].stage => sent[i] = sent[j])

C11_Witness ==
  /\ SentCount("Detect") >= 2
  /\ SentCount("Select") >= 2
  /\ SentCount("PickPlace") >= 2
  /\ SentCount("Reset") >= 2
  /\ cfg.arm_link # "/base_link"

\* C12: while a goal is pending, the only step that changes anything the
\* node does (history of requests and shutdowns, pending goals, node state)
\* is the delivery of that goal's completion: there is no timeout, no
\* re-submission, no cancellation and no shutdown.
C12_NoTimeoutTransition ==
  [][\A c \in Clients :
        (/\ goals[c] = "active"
         /\ ~(/\ Len(log') > Len(log)
              /\ IsDone(log'[Len(log) + 1], c)))
        => UNCHANGED <<log, sent, notes, goals, rosOk, pc>>]_vars

C12_Witness ==
  /\ goals["Select"] = "active"
  /\ rosOk
  /\ pc = "spin"
  /\ ResetCalls(log) >= 2

\* C13: with once = FALSE and no failure of Reset, Detect or Select, every
\* Reset call is followed by a further one (up to the explored number of
\* cycles) whatever the PickPlace outcomes are, and the node never halts nor
\* requests shutdown.
C13_LoopNeverHalts ==
  /\ \A n \in 0..(MaxCycles - 1) :
        (~once /\ ResetCalls(log) = n) ~> (FatalFailure \/ ResetCalls(log) = n + 1)
  /\ []((~once /\ ~FatalFailure) => (~Halted /\ rosOk /\ ShutdownCount(log) = 0))

C13_Witness ==
  /\ ~once
  /\ ~FatalFailure
  /\ ResetCalls(log) = MaxCycles
  /\ \E i \in Pos : FailedDone(log[i], "PickPlace")
  /\ goals["PickPlace"] = "active"

\* C14: every done callback logs at INFO exactly when the goal state is
\* SUCCEEDED; a Detect or Select completion is followed by ros::shutdown()
\* exactly when the state is not SUCCEEDED, whichever other state it is; and
\* what follows a PickPlace completion does not depend on the state.
C14_BranchOnSucceededOnly ==
  /\ Len(notes) = Len(DoneEvents(log))
  /\ \A i \in 1..Len(notes) :
        /\ notes[i].stage = DoneEvents(log)[i].stage
        /\ (notes[i].level = "INFO") <=> (DoneEvents(log)[i].res = SUCCEEDED)
        /\ notes[i].level \in {"INFO", "ERROR"}
  /\ \A i \in Pos :
        /\ IsDone(log[i], "Detect") =>
             IF log[i].res = SUCCEEDED
               THEN i < Len(log) /\ log[i + 1] = Send("Select")
               ELSE i + 1 < Len(log) /\ log[i + 1] = Shutdown /\ log[i + 2] = Send("Select")
        /\ IsDone(log[i], "Select") =>
             IF log[i].res = SUCCEEDED
               THEN i < Len(log) /\ log[i + 1] = Send("PickPlace")
               ELSE i + 1 < Len(log) /\ log[i + 1] = Shutdown /\ log[i + 2] = Send("PickPlace")
        /\ IsDone(log[i], "PickPlace") =>
             (i < Len(log) /\ log[i + 1] = (IF once THEN Shutdown ELSE CallReset))

C14_Witness ==
  /\ \E i \in Pos : log[i] = Done("PickPlace", "LOST")
  /\ \E i \in Pos : log[i] = Done("PickPlace", "PREEMPTED")
  /\ \E i \in Pos : log[i] = Done("Detect", "SUCCEEDED")
  /\ \E i \in Pos : log[i] = Done("Select", "REJECTED")

\* C15: ros::shutdown() is called only right after a failed Detect
\* completion, a failed Select completion, or a PickPlace completion with
\* once = TRUE; with once = FALSE and no failed Detect or Select, it is never
\* called, whatever the Reset and PickPlace outcomes.
C15_ShutdownOnlyInDoneCallbacks ==
  /\ \A i \in Pos : log[i] = Shutdown =>
        /\ i > 1
        /\ \/ FailedDone(log[i - 1], "Detect")
           \/ FailedDone(log[i - 1], "Select")
           \/ (once /\ IsDone(log[i - 1], "PickPlace"))
  /\ rosOk <=> (ShutdownCount(log) = 0)
  /\ (~once /\ ~\E i \in Pos : FailedDone(log[i], "Detect") \/ FailedDone(log[i], "Select"))
        => ShutdownCount(log) = 0

C15_Witness ==
  /\ ~once
  /\ Len(log) > 0
  /\ log[Len(log)] = RetReset(FALSE)
  /\ \E i \in Pos : FailedDone(log[i], "PickPlace")
  /\ ShutdownCount(log) = 0

\* C16: every request has its own cause: Detect goals sent <= successful
\* Reset returns; Select goals sent <= Detect completions handled; PickPlace
\* goals sent <= Select completions handled; Reset calls <= 1 + PickPlace
\* completions handled with once = FALSE.
C16_RequestsHaveCauses ==
  /\ CountOf(log, Send("Detect")) <= CountOf(log, RetReset(TRUE))
  /\ CountOf(log, Send("Select")) <= DoneCount("Detect")
  /\ CountOf(log, Send("PickPlace")) <= DoneCount("Select")
  /\ CountOf(log, CallReset) <= 1 + (IF once THEN 0 ELSE DoneCount("PickPlace"))

C16_Witness ==
  /\ CountOf(log, CallReset) = 3
  /\ CountOf(log, Send("Detect")) = 3
  /\ CountOf(log, Send("Select")) = 3
  /\ DoneCount("Detect") = 3
  /\ DoneCount("PickPlace") = 2
  /\ \E i \in Pos : FailedDone(log[i], "Detect")

\* C17: with once = TRUE every fair run ends halted, whatever the outcomes;
\* once halted the node issues nothing more; and it never issues more than
\* one Reset call and one goal of each kind.
C17_OnceRunTerminates ==
  /\ <>[](~once \/ Halted)
  /\ [][(once /\ Halted) => (log' = log /\ sent' = sent)]_vars
  /\ [](once => \A s \in {"Reset", "Detect", "Select", "PickPlace"} : SentCount(s) <= 1)

C17_Witness ==
  /\ once
  /\ Halted
  /\ Len(sent) = 4
  /\ \E i \in Pos : FailedDone(log[i], "Select")

====
